---- MODULE Spec2Model ----
(***************************************************************************)
(* A model of led_wand.c, the firmware of a persistence-of-vision LED wand. *)
(*                                                                         *)
(* Two contexts share the globals: the main context (main, runLEDSequence, *)
(* delay, convertMessageStringToSegments) and the comparator interrupt     *)
(* handler ISR.  The handler runs to completion (the PIC has one interrupt *)
(* level), so it is one action.  The main context is cut into one action   *)
(* per C statement; delay(timePerSegment) is cut in two, the evaluation of *)
(* the argument and the assignment delayingVariable = delayTime that       *)
(* starts the loop, because the handler can be taken between them.         *)
(*                                                                         *)
(* int is 16 bits wide on the target (XC8, PIC16F).                        *)
(***************************************************************************)
EXTENDS Integers, Sequences, FiniteSets, TLC

VARIABLES
    messageString,          \* unsigned char messageString[9], the used prefix
    lengthOfMessageString,  \* int lengthOfMessageString
    letterSegments,         \* unsigned char letterSegments[35]
    lengthOfMessage,        \* int lengthOfMessage
    timePerSegment,         \* int timePerSegment
    delayingVariable,       \* int delayingVariable
    isSequenceRunning,      \* bool isSequenceRunning
    PORTC,                  \* the output latch, 8 LEDs
    TMR1,                   \* TMR1H:TMR1L as the last handler left them
    C1OUT,                  \* comparator output as the last handler read it
    pc,                     \* position of the main context
    charIndex,              \* i of convertMessageStringToSegments
    indexOfLetterSegments,  \* local of convertMessageStringToSegments
    wildWrites,             \* indices outside letterSegments that were written
    i,                      \* i of runLEDSequence
    delayTime,              \* parameter of delay
    elapsedTicks,           \* history: TMR1 as read at entry of the last handler
    edges,                  \* history: handlers run since main was last at its loop head
    written,                \* history: values written to PORTC in the current pass
    iters,                  \* history: decrements of the current frame's delay loop
    holds,                  \* history: iters of the finished frames of the pass
    abortedFrame,           \* history: a validated end edge hit the current frame
    firstConversion,        \* history: what the first run of the conversion produced
    pendingStart,           \* history: a start was validated outside a pass, no pass began since
    credit                  \* history: validated starts less passes begun, up to MaxCredit

vars == <<messageString, lengthOfMessageString, letterSegments, lengthOfMessage,
          timePerSegment, delayingVariable, isSequenceRunning, PORTC, TMR1, C1OUT,
          pc, charIndex, indexOfLetterSegments, wildWrites, i, delayTime,
          elapsedTicks, edges, written, iters, holds, abortedFrame,
          firstConversion, pendingStart, credit>>

encoderVars == <<messageString, lengthOfMessageString, letterSegments,
                 lengthOfMessage, charIndex, indexOfLetterSegments, wildWrites,
                 firstConversion>>
historyVars == <<written, iters, holds, abortedFrame>>
startVars == <<pendingStart, credit>>

(***************************************************************************)
(* Program constants.                                                      *)
(***************************************************************************)
MessageCapacity == 9
FrameCapacity == 35
InitialTimePerSegment == 100
EndThreshold == 14000
StartThreshold == 1500
TimerModulus == 65536
IntModulus == 65536
IntMax == 32767

(***************************************************************************)
(* Bounds of the model.                                                    *)
(***************************************************************************)
MaxEdges == 2
MaxMsgLen == 2
MaxCredit == 1

Letters == {"A", "B", "C", "D", "E", "F", "G", "H", "I", "J", "K", "L", "M",
            "N", "O", "P", "Q", "R", "S", "T", "U", "V", "W", "X", "Y", "Z"}

(***************************************************************************)
(* convertMessageStringToSegments                                          *)
(***************************************************************************)
\* The three frames the switch statement stores for an upper-case letter.
Glyph(c) ==
    CASE c = "A" -> <<255, 9, 255>>
      [] c = "B" -> <<255, 144, 240>>
      [] c = "C" -> <<255, 129, 129>>
      [] c = "D" -> <<240, 144, 255>>
      [] c = "E" -> <<255, 145, 145>>
      [] c = "F" -> <<255, 9, 9>>
      [] c = "G" -> <<255, 145, 241>>
      [] c = "H" -> <<255, 8, 255>>
      [] c = "I" -> <<129, 255, 129>>
      [] c = "J" -> <<129, 255, 1>>
      [] c = "K" -> <<255, 36, 66>>
      [] c = "L" -> <<255, 128, 128>>
      [] c = "M" -> <<255, 15, 255>>
      [] c = "N" -> <<255, 1, 255>>
      [] c = "O" -> <<255, 129, 255>>
      [] c = "P" -> <<255, 9, 15>>
      [] c = "Q" -> <<63, 97, 191>>
      [] c = "R" -> <<240, 16, 16>>
      [] c = "S" -> <<159, 145, 241>>
      [] c = "T" -> <<8, 255, 8>>
      [] c = "U" -> <<255, 128, 255>>
      [] c = "V" -> <<96, 128, 96>>
      [] c = "W" -> <<255, 240, 255>>
      [] c = "X" -> <<195, 60, 195>>
      [] c = "Y" -> <<15, 248, 15>>
      [] c = "Z" -> <<225, 153, 135>>

\* letterSegments[k] = v; a store outside the array leaves the array alone
\* (it lands in whatever follows it in memory, see wildWrites).
Store(segs, k, v) == IF k \in DOMAIN segs THEN [segs EXCEPT ![k] = v] ELSE segs

\* The indices among ks that lie outside the array.
Wild(segs, ks) == {k \in ks : k \notin DOMAIN segs}

\* case ' ': the same slot is assigned twice, the index advances by two.
SpaceCase(st) ==
    [segs |-> Store(Store(st.segs, st.idx, 0), st.idx, 0),
     idx  |-> st.idx + 2,
     wild |-> st.wild \cup Wild(st.segs, {st.idx})]

\* The three stores of a letter made one slot too low.
LetterCaseOverlapping(st, c) ==
    [segs |-> Store(Store(Store(st.segs, st.idx - 1, Glyph(c)[1]),
                          st.idx, Glyph(c)[2]),
                    st.idx + 1, Glyph(c)[3]),
     idx  |-> st.idx + 3,
     wild |-> st.wild \cup Wild(st.segs, {st.idx - 1, st.idx, st.idx + 1})]

\* case 'A' .. case 'Z': three slots are assigned, the index advances by three.
LetterCase(st, c) ==
    [segs |-> Store(Store(Store(st.segs, st.idx, Glyph(c)[1]),
                          st.idx + 1, Glyph(c)[2]),
                    st.idx + 2, Glyph(c)[3]),
     idx  |-> st.idx + 3,
     wild |-> st.wild \cup Wild(st.segs, {st.idx, st.idx + 1, st.idx + 2})]

\* The switch statement with a default label that stores a space.
SwitchCharDefaultBlank(st, c) ==
    IF c \in Letters THEN LetterCase(st, c) ELSE SpaceCase(st)

\* The switch statement: a character with no case label falls through it.
SwitchChar(st, c) ==
    IF c = " " THEN SpaceCase(st)
    ELSE IF c \in Letters THEN LetterCase(st, c)
    ELSE st

\* The spacer advancing by the one slot it assigns.
SpacerAdvancingOne(st) ==
    [segs |-> Store(Store(st.segs, st.idx, 0), st.idx, 0),
     idx  |-> st.idx + 1,
     wild |-> st.wild \cup Wild(st.segs, {st.idx})]

\* "After every character, insert a small space": again the same slot is
\* assigned twice and the index advances by two.
Spacer(st) ==
    [segs |-> Store(Store(st.segs, st.idx, 0), st.idx, 0),
     idx  |-> st.idx + 2,
     wild |-> st.wild \cup Wild(st.segs, {st.idx})]

\* The loop body skipping a character that has no case label altogether.
ConvertOneSkippingUnknown(st, c) ==
    IF c \in Letters \cup {" "} THEN Spacer(SwitchChar(st, c)) ELSE st

\* One iteration of the for loop over messageString.
ConvertOne(st, c) == Spacer(SwitchChar(st, c))

\* The whole loop, from character k of msg on.
RECURSIVE ConvertFrom(_, _, _)
ConvertFrom(st, msg, k) ==
    IF k > Len(msg) THEN st ELSE ConvertFrom(ConvertOne(st, msg[k]), msg, k + 1)

\* Static storage is zero-initialised at start-up.
ZeroSegments == [k \in 0..(FrameCapacity - 1) |-> 0]

ConvertAll(msg) == ConvertFrom([segs |-> ZeroSegments, idx |-> 0, wild |-> {}], msg, 1)

\* The index left where the previous call ended (a static local).
ConvertStartIndexKept(previous) == previous

\* int indexOfLetterSegments = 0, at every call.
ConvertStartIndex(previous) == 0

\* A second call of convertMessageStringToSegments on the same messageString:
\* its locals are initialised again, the globals are as the first call left
\* them.
ConvertAgain ==
    /\ pc = "main"
    /\ firstConversion = <<>>
    /\ firstConversion' = <<letterSegments, lengthOfMessage>>
    /\ charIndex' = 0
    /\ indexOfLetterSegments' = ConvertStartIndex(indexOfLetterSegments)
    /\ pc' = "convert"
    /\ UNCHANGED <<messageString, lengthOfMessageString, letterSegments,
                   lengthOfMessage, wildWrites, startVars, timePerSegment,
                   delayingVariable, isSequenceRunning, PORTC, TMR1, C1OUT, i,
                   delayTime, elapsedTicks, edges, historyVars>>

\* Loop body for messageString[charIndex] (charIndex counts from 0 as in C).
ConvertChar ==
    /\ pc = "convert"
    /\ charIndex < lengthOfMessageString
    /\ LET st == ConvertOne([segs |-> letterSegments, idx |-> indexOfLetterSegments,
                             wild |-> wildWrites], messageString[charIndex + 1])
       IN /\ letterSegments' = st.segs
          /\ indexOfLetterSegments' = st.idx
          /\ wildWrites' = st.wild
    /\ charIndex' = charIndex + 1
    /\ UNCHANGED <<messageString, lengthOfMessageString, lengthOfMessage,
                   firstConversion, startVars, timePerSegment, delayingVariable,
                   isSequenceRunning, PORTC, TMR1,
                   C1OUT, pc, i, delayTime, elapsedTicks, edges, historyVars>>

\* Loop exit: lengthOfMessage = indexOfLetterSegments; main then enables the
\* interrupts, clears and starts TMR1 and enters its loop (lines 105-115 are
\* taken as one step: no edge is modelled before the timer has been started).
ConvertDone ==
    /\ pc = "convert"
    /\ charIndex >= lengthOfMessageString
    /\ lengthOfMessage' = indexOfLetterSegments
    /\ TMR1' = 0
    /\ pc' = "main"
    /\ UNCHANGED <<messageString, lengthOfMessageString, letterSegments,
                   firstConversion, startVars, timePerSegment, delayingVariable,
                   isSequenceRunning, PORTC,
                   C1OUT, charIndex, indexOfLetterSegments, wildWrites, i, delayTime,
                   elapsedTicks, edges, historyVars>>

(***************************************************************************)
(* ISR                                                                     *)
(***************************************************************************)
\* A 16-bit pattern read as a C int.
ToInt(x) == IF x % IntModulus > IntMax THEN (x % IntModulus) - IntModulus
            ELSE x % IntModulus

\* int duration = TMR1L + (256 * TMR1H), for the timer holding t.
Duration(t) == ToInt((t % 256) + 256 * (t \div 256))

\* if (duration > 14000)
EndValid(duration) == duration > EndThreshold

\* The threshold taken as inclusive.
StartValidInclusive(duration) == duration >= StartThreshold

\* if (duration > 1500)
StartValid(duration) == duration > StartThreshold

\* The divisor written with the integer constant 2.
SegmentTimeIntegerDivisor(duration, n) == duration \div (2 * n)

\* The divisor written without its parentheses: duration / 2.4 * n.
SegmentTimeUnparenthesised(duration, n) == ((10 * duration) \div 24) * n

\* timePerSegment = duration / (2.4 * lengthOfMessage): the quotient of
\* duration by 24 n / 10, truncated by the conversion to int.  duration is
\* positive here.  (IEEE double arithmetic gives exactly this value for every
\* duration in 1..32767 and n in 1..35.)
SegmentTime(duration, n) == (10 * duration) \div (24 * n)

\* The pcs at which a frame is on the LEDs and its delay is pending or running.
FramePcs == {"call", "init", "test", "dec"}

\* The pcs of runLEDSequence.
RunPcs == FramePcs \cup {"for", "off"}

\* The handler, taken when the comparator output is c1out and the free-running
\* timer (which wraps at 2^16) holds t.
ISR(c1out, t) ==
    /\ pc # "convert"
    /\ LET duration == Duration(t) IN
       IF c1out = 0 THEN
           IF EndValid(duration)
           THEN /\ timePerSegment' = 0
                /\ delayingVariable' = 1
                /\ TMR1' = 0
                /\ abortedFrame' = (abortedFrame \/ pc \in FramePcs)
                /\ UNCHANGED isSequenceRunning
           ELSE /\ TMR1' = t
                /\ UNCHANGED <<timePerSegment, delayingVariable, isSequenceRunning,
                               abortedFrame>>
       ELSE
           IF StartValid(duration)
           THEN /\ timePerSegment' = SegmentTime(duration, lengthOfMessage)
                /\ isSequenceRunning' = TRUE
                /\ TMR1' = 0
                /\ UNCHANGED <<delayingVariable, abortedFrame>>
           ELSE /\ TMR1' = t
                /\ UNCHANGED <<timePerSegment, delayingVariable, isSequenceRunning,
                               abortedFrame>>
    /\ C1OUT' = c1out
    /\ elapsedTicks' = t
    /\ edges' = edges + 1
    /\ IF c1out # 0 /\ StartValid(Duration(t))
       THEN /\ pendingStart' = (pendingStart \/ pc \notin RunPcs)
            /\ credit' = IF credit < MaxCredit THEN credit + 1 ELSE credit
       ELSE UNCHANGED startVars
    /\ iters' = 0
    /\ holds' = <<>>
    /\ UNCHANGED <<encoderVars, PORTC, pc, i, delayTime, written>>

(***************************************************************************)
(* main, runLEDSequence, delay                                             *)
(***************************************************************************)
\* The loop started one frame too low.
FirstFrameSkippingLast(n) == n - 2

\* for (int i = lengthOfMessage - 1; ...
FirstFrame(n) == n - 1

\* ... ; i >= 0; ...
MoreFrames(k) == k >= 0

\* The loop stepping down by two.
NextFrameSkipping(k) == k - 2

\* ... ; i--)
NextFrame(k) == k - 1

\* delayingVariable > 0
DelayRunning(d) == d > 0

\* The flag left set.
ClearedStuck == TRUE

\* isSequenceRunning = false
Cleared == FALSE

\* while (1) { if (isSequenceRunning) ...
MainTest ==
    /\ pc = "main"
    /\ edges' = 0
    /\ IF isSequenceRunning
       THEN /\ pc' = "for"
            /\ i' = FirstFrame(lengthOfMessage)
            /\ written' = <<>>
            /\ iters' = 0
            /\ holds' = <<>>
            /\ abortedFrame' = FALSE
            /\ pendingStart' = FALSE
            /\ credit' = credit - 1
       ELSE UNCHANGED <<pc, i, historyVars, startVars>>
    /\ UNCHANGED <<encoderVars, timePerSegment, delayingVariable, isSequenceRunning,
                   PORTC, TMR1, C1OUT, delayTime, elapsedTicks>>

\* The loop test of runLEDSequence and PORTC = letterSegments[i].
ForTest ==
    /\ pc = "for"
    /\ IF MoreFrames(i)
       THEN /\ PORTC' = letterSegments[i]
            /\ written' = Append(written, letterSegments[i])
            /\ pc' = "call"
       ELSE /\ pc' = "off"
            /\ UNCHANGED <<PORTC, written>>
    /\ abortedFrame' = FALSE
    /\ UNCHANGED <<encoderVars, startVars, timePerSegment, delayingVariable, isSequenceRunning,
                   TMR1, C1OUT, i, delayTime, elapsedTicks, edges, iters, holds>>

\* delay(timePerSegment): the argument is evaluated.
CallDelay ==
    /\ pc = "call"
    /\ delayTime' = timePerSegment
    /\ pc' = "init"
    /\ UNCHANGED <<encoderVars, startVars, timePerSegment, delayingVariable, isSequenceRunning,
                   PORTC, TMR1, C1OUT, i, elapsedTicks, edges, historyVars>>

\* for (delayingVariable = delayTime; ...
DelayInit ==
    /\ pc = "init"
    /\ delayingVariable' = delayTime
    /\ pc' = "test"
    /\ UNCHANGED <<encoderVars, startVars, timePerSegment, isSequenceRunning, PORTC, TMR1,
                   C1OUT, i, delayTime, elapsedTicks, edges, historyVars>>

\* ... ; delayingVariable > 0; ...   On exit delay returns and the for loop
\* of runLEDSequence does its i--.
DelayTest ==
    /\ pc = "test"
    /\ IF DelayRunning(delayingVariable)
       THEN /\ pc' = "dec"
            /\ UNCHANGED <<i, iters, holds>>
       ELSE /\ pc' = "for"
            /\ i' = NextFrame(i)
            /\ holds' = IF edges = 0 THEN Append(holds, iters) ELSE <<>>
            /\ iters' = 0
    /\ UNCHANGED <<encoderVars, startVars, timePerSegment, delayingVariable, isSequenceRunning,
                   PORTC, TMR1, C1OUT, delayTime, elapsedTicks, edges, written,
                   abortedFrame>>

\* ... ; delayingVariable--) {}
DelayDec ==
    /\ pc = "dec"
    /\ delayingVariable' = delayingVariable - 1
    /\ iters' = IF edges = 0 THEN iters + 1 ELSE 0
    /\ pc' = "test"
    /\ UNCHANGED <<encoderVars, startVars, timePerSegment, isSequenceRunning, PORTC, TMR1,
                   C1OUT, i, delayTime, elapsedTicks, edges, written, holds,
                   abortedFrame>>

\* runLEDSequence returning with the last frame still on the LEDs.
LedsOffKeepingLast ==
    /\ pc = "off"
    /\ pc' = "clear"
    /\ UNCHANGED <<encoderVars, startVars, timePerSegment, delayingVariable, isSequenceRunning,
                   PORTC, TMR1, C1OUT, i, delayTime, elapsedTicks, edges, historyVars>>

\* PORTC = 0, after which runLEDSequence returns.
LedsOff ==
    /\ pc = "off"
    /\ PORTC' = 0
    /\ written' = Append(written, 0)
    /\ pc' = "clear"
    /\ UNCHANGED <<encoderVars, startVars, timePerSegment, delayingVariable, isSequenceRunning,
                   TMR1, C1OUT, i, delayTime, elapsedTicks, edges, iters, holds,
                   abortedFrame>>

\* The flag cleared and the frame period put back to its initial value.
ClearFlagRestoringTime ==
    /\ pc = "clear"
    /\ isSequenceRunning' = FALSE
    /\ timePerSegment' = InitialTimePerSegment
    /\ pc' = "main"
    /\ UNCHANGED <<encoderVars, startVars, delayingVariable, PORTC, TMR1,
                   C1OUT, i, delayTime, elapsedTicks, edges, historyVars>>

\* isSequenceRunning = false
ClearFlag ==
    /\ pc = "clear"
    /\ isSequenceRunning' = Cleared
    /\ pc' = "main"
    /\ UNCHANGED <<encoderVars, startVars, timePerSegment, delayingVariable, PORTC, TMR1,
                   C1OUT, i, delayTime, elapsedTicks, edges, historyVars>>

Main == MainTest \/ ForTest \/ CallDelay \/ DelayInit \/ DelayTest \/ DelayDec
            \/ LedsOff \/ ClearFlag

(***************************************************************************)
(* The program: main stores a message, converts it and loops, with the     *)
(* handler enabled from then on.                                           *)
(***************************************************************************)
\* The message main stores (lines 91-98), and the one of the end-to-end scenario.
MainMessages == {<<"S", "A", "H", "O", "T", "A">>, <<"H", "I">>}

\* Timer readings at which edges arrive, by comparator output: the thresholds,
\* the readings next above them, the scenario's 2400 and a reading past 2^15.
RiseTicks == {StartThreshold, StartThreshold + 1, 2400}
FallTicks == {EndThreshold, EndThreshold + 1, 40000}
EdgeTicks(c1out) == IF c1out = 1 THEN RiseTicks ELSE FallTicks

InitWith(msg) ==
    /\ messageString = msg
    /\ lengthOfMessageString = Len(msg)
    /\ letterSegments = ZeroSegments
    /\ lengthOfMessage = 0
    /\ timePerSegment = InitialTimePerSegment
    /\ delayingVariable = 0
    /\ isSequenceRunning = FALSE
    /\ PORTC = 0
    /\ TMR1 = 0
    /\ C1OUT = 0
    /\ pc = "convert"
    /\ charIndex = 0
    /\ indexOfLetterSegments = 0
    /\ wildWrites = {}
    /\ i = 0
    /\ delayTime = 0
    /\ elapsedTicks = 0
    /\ edges = 0
    /\ written = <<>>
    /\ iters = 0
    /\ holds = <<>>
    /\ abortedFrame = FALSE
    /\ firstConversion = <<>>
    /\ pendingStart = FALSE
    /\ credit = 0

Init == \E msg \in MainMessages : InitWith(msg)

Edge == /\ edges < MaxEdges
        /\ \E c1out \in {0, 1} : \E t \in EdgeTicks(c1out) : ISR(c1out, t)

Next == ConvertChar \/ ConvertDone \/ Main \/ Edge

Spec == Init /\ [][Next]_vars

LiveSpec == Spec /\ WF_vars(Main)

(***************************************************************************)
(* The handler alone: one edge, at any reading of the 16-bit timer, taken  *)
(* while main idles at its loop head after the conversion.                 *)
(***************************************************************************)
\* The state when main reaches its loop with msg converted, the shared
\* variables holding what earlier edges and passes left in them.
AtLoopHead(msg, tps, dv, running) ==
    /\ messageString = msg
    /\ lengthOfMessageString = Len(msg)
    /\ letterSegments = ConvertAll(msg).segs
    /\ lengthOfMessage = ConvertAll(msg).idx
    /\ timePerSegment = tps
    /\ delayingVariable = dv
    /\ isSequenceRunning = running
    /\ PORTC = 0
    /\ TMR1 = 0
    /\ C1OUT = 0
    /\ pc = "main"
    /\ charIndex = Len(msg)
    /\ indexOfLetterSegments = ConvertAll(msg).idx
    /\ wildWrites = ConvertAll(msg).wild
    /\ i = 0
    /\ delayTime = 0
    /\ elapsedTicks = 0
    /\ edges = 0
    /\ written = <<>>
    /\ iters = 0
    /\ holds = <<>>
    /\ abortedFrame = FALSE
    /\ firstConversion = <<>>
    /\ pendingStart = running
    /\ credit = IF running THEN 1 ELSE 0

\* Before any edge; after a validated end edge; after a validated start edge.
InitEdge == \E msg \in MainMessages :
    \/ AtLoopHead(msg, InitialTimePerSegment, 0, FALSE)
    \/ AtLoopHead(msg, 0, 1, FALSE)
    \/ AtLoopHead(msg, SegmentTime(2400, ConvertAll(msg).idx), 0, TRUE)

AllTicks == 0..(TimerModulus - 1)

OneEdge == /\ edges = 0
           /\ \E c1out \in {0, 1} : \E t \in AllTicks : ISR(c1out, t)

SpecEdge == InitEdge /\ [][OneEdge]_vars

(***************************************************************************)
(* The handler alone, over the frame counts the conversion can produce.    *)
(***************************************************************************)
MaxTimingTick == 3700

Rep(c, k) == [j \in 1..k |-> c]

\* a letters, b spaces and c characters without a case label, within the
\* capacities of messageString and letterSegments.
TimingMessages ==
    {Rep("A", a) \o Rep(" ", b) \o Rep("?", c) :
        <<a, b, c>> \in {x \in (0..7) \X (0..8) \X (0..MessageCapacity) :
                            /\ x[1] + x[2] + x[3] \in 1..MessageCapacity
                            /\ 5 * x[1] + 4 * x[2] + 2 * x[3] <= FrameCapacity}}

TimingTicks == (0..MaxTimingTick) \cup {EndThreshold + 1, IntMax, IntMax + 1}

InitTiming == \E msg \in TimingMessages : AtLoopHead(msg, InitialTimePerSegment, 0, FALSE)

RisingEdge == /\ edges = 0
              /\ \E t \in TimingTicks : ISR(1, t)

SpecTiming == InitTiming /\ [][RisingEdge]_vars

(***************************************************************************)
(* The conversion alone, over all short messages.                          *)
(***************************************************************************)
EncoderChars == Letters \cup {" ", "?"}

\* Every message of up to MaxMsgLen characters, and the longer messages of
\* TimingMessages, which fill letterSegments up to its last slot.
EncoderMessages == UNION {[1..k -> EncoderChars] : k \in 0..MaxMsgLen}
                       \cup TimingMessages

InitEncoder == \E msg \in EncoderMessages : InitWith(msg)

NextEncoder == ConvertChar \/ ConvertDone \/ ConvertAgain

SpecEncoder == InitEncoder /\ [][NextEncoder]_vars

(***************************************************************************)
(* The conversion alone, over the messages messageString has room for,     *)
(* whether or not their frames fit letterSegments.                         *)
(***************************************************************************)
CapacityMessages ==
    {Rep("A", a) \o Rep(" ", b) \o Rep("?", c) :
        <<a, b, c>> \in {x \in (0..MessageCapacity) \X (0..MessageCapacity)
                                 \X (0..MessageCapacity) :
                            x[1] + x[2] + x[3] <= MessageCapacity}}

InitCapacity == \E msg \in CapacityMessages : InitWith(msg)

NextCapacity == ConvertChar \/ ConvertDone

SpecCapacity == InitCapacity /\ [][NextCapacity]_vars

(***************************************************************************)
(* Properties.                                                             *)
(***************************************************************************)
\* A step of the handler.
HandlerRan == edges' = edges + 1

\* A step of the handler for a falling edge that waited more than 14000 ticks.
LongFallingEdge == HandlerRan /\ C1OUT' = 0 /\ elapsedTicks' > EndThreshold

\* A step of the handler for a rising edge that waited more than 1500 ticks.
LongRisingEdge == HandlerRan /\ C1OUT' = 1 /\ elapsedTicks' > StartThreshold

\* C1: once a validated end edge has been handled during a frame (at any
\* point of it, the call of delay included), the frame period is 0 until the
\* next edge, the frame's delay loop has at most one decrement left, and PORTC
\* is 0 when runLEDSequence has returned.
C1_AbortEndsFrameAtNextCheck ==
    /\ (abortedFrame /\ C1OUT = 0 /\ elapsedTicks > EndThreshold) => timePerSegment = 0
    /\ (abortedFrame /\ pc \in {"test", "dec"}) => delayingVariable <= 1
    /\ pc = "clear" => PORTC = 0

\* C2: a falling edge whose timer reading exceeds 14000, whatever the reading
\* in 0..65535, sets timePerSegment to 0 and delayingVariable to 1 and resets
\* the timer.
C2_EndEdgeValidated ==
    [][LongFallingEdge =>
          (timePerSegment' = 0 /\ delayingVariable' = 1 /\ TMR1' = 0)]_vars

\* C3: a rising edge whose timer reading exceeds 1500, whatever the reading in
\* 0..65535, sets isSequenceRunning, recomputes timePerSegment from the
\* reading and resets the timer.
C3_StartEdgeValidated ==
    [][LongRisingEdge =>
          /\ isSequenceRunning'
          /\ timePerSegment' = (5 * elapsedTicks') \div (12 * lengthOfMessage)
          /\ TMR1' = 0]_vars

\* C4: a rising edge at a reading of at most 1500, or a falling edge at a
\* reading of at most 14000, leaves timePerSegment, isSequenceRunning and
\* delayingVariable as they were and leaves the timer at its reading.
C4_Debounce ==
    [][(HandlerRan /\ (\/ C1OUT' = 1 /\ elapsedTicks' <= StartThreshold
                       \/ C1OUT' = 0 /\ elapsedTicks' <= EndThreshold))
          => /\ UNCHANGED <<timePerSegment, isSequenceRunning, delayingVariable>>
             /\ TMR1' = elapsedTicks']_vars

\* C4 witness: a rising edge at exactly 1500 ticks was handled as noise.
C4_Witness ==
    /\ edges = 1 /\ C1OUT = 1 /\ elapsedTicks = StartThreshold
    /\ TMR1 = StartThreshold /\ ~isSequenceRunning
    /\ timePerSegment = InitialTimePerSegment

\* C5: a validated start edge (a rising edge at a reading t > 1500 that reset
\* the timer) with n frames sets timePerSegment to floor(5 t / 12 n), which is
\* 150 for t = 3600, n = 10, is 100 for t = 2400, n = 10, and is at least 1
\* whenever n <= 35.
C5_AdaptiveTiming ==
    [][(LongRisingEdge /\ TMR1' = 0 /\ lengthOfMessage >= 1)
          => /\ timePerSegment' = (5 * elapsedTicks') \div (12 * lengthOfMessage)
             /\ (elapsedTicks' = 3600 /\ lengthOfMessage = 10) => timePerSegment' = 150
             /\ (elapsedTicks' = 2400 /\ lengthOfMessage = 10) => timePerSegment' = 100
             /\ lengthOfMessage <= FrameCapacity => timePerSegment' >= 1]_vars

\* C5 witness: a start edge at 3600 ticks with 10 frames gave 150.
C5_Witness ==
    /\ edges = 1 /\ C1OUT = 1 /\ elapsedTicks = 3600 /\ lengthOfMessage = 10
    /\ isSequenceRunning /\ TMR1 = 0 /\ timePerSegment = 150

\* C6: a pass during which no edge was handled has written letterSegments[n-1],
\* ..., letterSegments[0] and then 0 to PORTC, in that order, and has held each
\* frame for exactly timePerSegment iterations of the delay loop; message "HI"
\* has 10 frames.
C6_FullRenderInReverse ==
    /\ (pc = "clear" /\ edges = 0) =>
          /\ written = [k \in 1..(lengthOfMessage + 1) |->
                           IF k <= lengthOfMessage THEN letterSegments[lengthOfMessage - k]
                           ELSE 0]
          /\ holds = [k \in 1..lengthOfMessage |-> timePerSegment]
          /\ PORTC = 0
    /\ (pc # "convert" /\ messageString = <<"H", "I">>) => lengthOfMessage = 10

\* C6 witness: "HI" rendered after a start at 2400 ticks: 10 frames, last
\* first, 100 iterations each, then 0.
C6_Witness ==
    /\ pc = "clear" /\ edges = 0
    /\ messageString = <<"H", "I">> /\ elapsedTicks = 2400 /\ C1OUT = 1
    /\ written = <<0, 0, 129, 255, 129, 0, 0, 255, 8, 255, 0>>
    /\ holds = <<100, 100, 100, 100, 100, 100, 100, 100, 100, 100>>

\* C7: a rendering pass, once begun, leads to main back at its loop head with
\* PORTC = 0 and isSequenceRunning false, and the flag is set wherever main is
\* inside a pass.
C7_PassEndsIdle ==
    /\ [](pc \in RunPcs \cup {"clear"} => isSequenceRunning)
    /\ (pc \in RunPcs) ~> (pc = "main" /\ PORTC = 0 /\ ~isSequenceRunning)

\* C7 witness: main is back at its loop head with the LEDs off and the flag
\* cleared after a pass that a validated end edge cut short.
C7_Witness ==
    /\ pc = "main" /\ ~isSequenceRunning /\ PORTC = 0
    /\ written # <<>> /\ edges > 0 /\ timePerSegment = 0

\* C8 as claimed: a validated start edge handled inside runLEDSequence leaves
\* the frame period and the running flag as they were.
C8_ReentrantStartIgnored ==
    [][(LongRisingEdge /\ TMR1' = 0 /\ pc \in RunPcs)
          => (timePerSegment' = timePerSegment
              /\ isSequenceRunning' = isSequenceRunning)]_vars

\* C8 as amended: a validated start edge handled inside runLEDSequence starts
\* no additional pass (the flag was set and stays set, the pass keeps its
\* position and output, and the flag is cleared when the pass has returned),
\* but it replaces timePerSegment by floor(5 t / 12 n).
C8_ReentrantStartRetimes ==
    [][/\ (LongRisingEdge /\ TMR1' = 0 /\ pc \in RunPcs)
             => /\ isSequenceRunning /\ isSequenceRunning'
                /\ UNCHANGED <<pc, i, PORTC, written, delayingVariable, delayTime>>
                /\ timePerSegment' = (5 * elapsedTicks') \div (12 * lengthOfMessage)
       /\ (pc = "clear" /\ pc' = "main") => ~isSequenceRunning']_vars

\* C8 witness: a start edge at 1501 ticks arrived inside a pass that began
\* with a frame period of 100 and changed the period to 62.
C8_Witness ==
    /\ pc \in FramePcs /\ messageString = <<"H", "I">> /\ i < 9
    /\ edges = 1 /\ C1OUT = 1 /\ elapsedTicks = StartThreshold + 1
    /\ delayTime = 100 /\ timePerSegment = 62 /\ isSequenceRunning

\* C9 as claimed: a step of the main context leaves each of timePerSegment,
\* isSequenceRunning, delayingVariable and TMR1 as it was or cleared.
C9_SingleWriter ==
    [][~HandlerRan =>
          /\ timePerSegment' = timePerSegment \/ timePerSegment' = 0
          /\ isSequenceRunning' = isSequenceRunning \/ ~isSequenceRunning'
          /\ delayingVariable' = delayingVariable \/ delayingVariable' = 0
          /\ TMR1' = TMR1 \/ TMR1' = 0]_vars

\* C9 as amended: a step of the main context leaves timePerSegment as it was,
\* leaves isSequenceRunning and TMR1 as they were or cleared, and changes
\* delayingVariable only in delay, which loads it and counts it down.
C9_SingleWriterExceptDelay ==
    [][~HandlerRan =>
          /\ timePerSegment' = timePerSegment
          /\ isSequenceRunning' = isSequenceRunning \/ ~isSequenceRunning'
          /\ TMR1' = TMR1 \/ TMR1' = 0
          /\ \/ delayingVariable' = delayingVariable
             \/ pc = "init" /\ delayingVariable' = delayTime
             \/ pc = "dec" /\ delayingVariable' = delayingVariable - 1]_vars

\* C9 witness: delay has loaded delayingVariable with 100 and counted it down
\* to 57, with no handler run since the pass began.
C9_Witness ==
    /\ pc = "test" /\ edges = 0 /\ delayTime = 100 /\ delayingVariable = 57

\* The frames a message over ' ' and 'A'..'Z' is laid out as: per letter its
\* three table entries and two zeros, per space four zeros.
RECURSIVE Layout(_)
Layout(msg) ==
    IF msg = <<>> THEN <<>>
    ELSE (IF Head(msg) = " " THEN <<0, 0, 0, 0>> ELSE Glyph(Head(msg)) \o <<0, 0>>)
             \o Layout(Tail(msg))

Count(msg, S) == Cardinality({k \in 1..Len(msg) : msg[k] \in S})

\* C10: after the conversion of a message over ' ' and 'A'..'Z' that fits
\* letterSegments, the array holds, character after character, the letter's
\* three table entries followed by two zeros or, for a space, four zeros, and
\* lengthOfMessage is 5 * letters + 4 * spaces.
C10_GlyphLayout ==
    (/\ pc = "main"
     /\ \A k \in 1..Len(messageString) : messageString[k] \in Letters \cup {" "}
     /\ 5 * Count(messageString, Letters) + 4 * Count(messageString, {" "})
            <= FrameCapacity)
    => /\ lengthOfMessage = 5 * Count(messageString, Letters)
                               + 4 * Count(messageString, {" "})
       /\ lengthOfMessage = Len(Layout(messageString))
       /\ \A k \in 1..lengthOfMessage :
              letterSegments[k - 1] = Layout(messageString)[k]

\* C10 witness: "AAA" and five spaces converted into all 35 slots: three
\* times 255, 9, 255, 0, 0 and then twenty zeros.
C10_Witness ==
    /\ pc = "main" /\ messageString = Rep("A", 3) \o Rep(" ", 5)
    /\ lengthOfMessage = FrameCapacity
    /\ \A k \in 0..14 : letterSegments[k] = <<255, 9, 255, 0, 0>>[(k % 5) + 1]
    /\ \A k \in 15..34 : letterSegments[k] = 0

\* The characters the switch statement has a case label for.
Supported == Letters \cup {" "}

\* The loop body has just converted messageString[charIndex + 1].
ConvertedChar == pc = "convert" /\ charIndex' = charIndex + 1

\* C11: converting a character that is neither ' ' nor 'A'..'Z' stores no
\* stroke frame: it advances the write index by exactly 2, changes no slot
\* other than the one it clears, and the two frames it adds are both 0.
C11_UnsupportedGetsSpacer ==
    [][(ConvertedChar /\ messageString[charIndex + 1] \notin Supported)
          => /\ indexOfLetterSegments' = indexOfLetterSegments + 2
             /\ \A k \in 0..(FrameCapacity - 1) :
                    letterSegments'[k] = IF k = indexOfLetterSegments THEN 0
                                         ELSE letterSegments[k]
             /\ letterSegments'[indexOfLetterSegments] = 0
             /\ letterSegments'[indexOfLetterSegments + 1] = 0]_vars

\* C11 witness: "A?" converted: the five frames of 'A' and then the two zero
\* frames of '?', seven in all.
C11_Witness ==
    /\ pc = "main" /\ messageString = <<"A", "?">>
    /\ lengthOfMessage = 7
    /\ \A k \in 0..6 : letterSegments[k] = <<255, 9, 255, 0, 0, 0, 0>>[k + 1]

\* The message without its unsupported characters.
WithoutUnsupported(msg) == SelectSeq(msg, LAMBDA c : c \in Supported)

\* The frames of a message over any characters: those of Layout, and two
\* zeros for an unsupported character.
RECURSIVE LayoutAll(_)
LayoutAll(msg) ==
    IF msg = <<>> THEN <<>>
    ELSE (IF Head(msg) \in Supported THEN Layout(<<Head(msg)>>) ELSE <<0, 0>>)
             \o LayoutAll(Tail(msg))

\* C12 as claimed: after the conversion lengthOfMessage and letterSegments
\* are what the conversion of the message without its unsupported characters
\* gives.
C12_UnsupportedIsAbsent ==
    pc = "main" =>
        /\ lengthOfMessage = ConvertAll(WithoutUnsupported(messageString)).idx
        /\ letterSegments = ConvertAll(WithoutUnsupported(messageString)).segs

\* C12 as amended: an unsupported character is not a no-op.  After the
\* conversion of a message that fits letterSegments, lengthOfMessage exceeds
\* that of the message without its unsupported characters by 2 for each of
\* them, and the array holds the frames of the supported characters with two
\* zero frames at the place of each unsupported one.
C12_UnsupportedLeavesGap ==
    pc = "main" =>
        /\ lengthOfMessage = ConvertAll(WithoutUnsupported(messageString)).idx
                                + 2 * Count(messageString, EncoderChars \ Supported)
        /\ lengthOfMessage = Len(LayoutAll(messageString))
        /\ \A k \in 1..lengthOfMessage :
               letterSegments[k - 1] = LayoutAll(messageString)[k]

\* C12 witness: "?A" converted: 'A' starts at slot 2, not at slot 0, and
\* lengthOfMessage is 7, not 5.
C12_Witness ==
    /\ pc = "main" /\ messageString = <<"?", "A">>
    /\ lengthOfMessage = 7
    /\ letterSegments[0] = 0 /\ letterSegments[1] = 0
    /\ letterSegments[2] = 255 /\ letterSegments[3] = 9 /\ letterSegments[4] = 255

\* C13 as claimed: for every message of 0..9 characters every store of the
\* conversion falls in slots 0..34 and lengthOfMessage ends at most 35.
C13_FrameStorageBound ==
    /\ wildWrites = {}
    /\ indexOfLetterSegments <= FrameCapacity
    /\ pc = "main" => lengthOfMessage <= FrameCapacity

\* C14: a second call of the conversion on the same messageString and
\* lengthOfMessageString ends with the lengthOfMessage and, slot for slot, the
\* letterSegments the first call ended with.
C14_Idempotent ==
    (pc = "main" /\ firstConversion # <<>>)
        => firstConversion = <<letterSegments, lengthOfMessage>>

\* C14 witness: "HI" converted twice, ten frames both times.
C14_Witness ==
    /\ pc = "main" /\ messageString = <<"H", "I">>
    /\ firstConversion # <<>> /\ firstConversion[2] = 10
    /\ lengthOfMessage = 10 /\ indexOfLetterSegments = 10

\* The characters converted so far.
ConvertedPrefix == SubSeq(messageString, 1, charIndex)

\* C15: the write index never decreases and the frames of distinct
\* characters do not overlap: a character's stores all fall at or above the
\* index the characters before it ended at and below the index it ends at,
\* so that during the first conversion the slots below the index hold the
\* frames of the characters converted so far, in message order, and the
\* slots from the index on are untouched.
C15_OrderPreserved ==
    /\ []((pc = "convert" /\ firstConversion = <<>>)
             => /\ indexOfLetterSegments = Len(LayoutAll(ConvertedPrefix))
                /\ \A k \in 0..(FrameCapacity - 1) :
                       letterSegments[k] = IF k < indexOfLetterSegments
                                           THEN LayoutAll(ConvertedPrefix)[k + 1]
                                           ELSE 0)
    /\ [][ConvertedChar
             => /\ indexOfLetterSegments' > indexOfLetterSegments
                /\ \A k \in 0..(FrameCapacity - 1) :
                       letterSegments'[k] # letterSegments[k]
                           => /\ indexOfLetterSegments <= k
                              /\ k < indexOfLetterSegments'
                /\ wildWrites' = wildWrites]_vars

\* C15 witness: "AB" converted: 'A' took slots 0..4 and 'B' slots 5..9.
C15_Witness ==
    /\ pc = "convert" /\ charIndex = 2 /\ messageString = <<"A", "B">>
    /\ indexOfLetterSegments = 10
    /\ letterSegments[0] = 255 /\ letterSegments[4] = 0
    /\ letterSegments[5] = 255 /\ letterSegments[6] = 144 /\ letterSegments[7] = 240

\* C16 as claimed: a validated start edge handled while main is outside
\* runLEDSequence, at its loop head or between the return of runLEDSequence
\* and isSequenceRunning = false, is followed by the beginning of a pass.
C16_StartOutsidePassRenders == pendingStart ~> (pc = "for")

\* C17: whenever isSequenceRunning is false PORTC is 0, and a non-zero
\* pattern is on PORTC only while main is inside runLEDSequence, with the
\* flag set.
C17_IdleImpliesDark ==
    /\ ~isSequenceRunning => PORTC = 0
    /\ PORTC # 0 => (pc \in RunPcs /\ isSequenceRunning)

\* C17 witness: main idle at its loop head, the LEDs dark, after an
\* undisturbed pass that had put non-zero frames on them.
C17_Witness ==
    /\ pc = "main" /\ ~isSequenceRunning /\ PORTC = 0
    /\ edges = 0 /\ Len(written) = lengthOfMessage + 1
    /\ \E k \in 1..lengthOfMessage : written[k] # 0

\* A step of the handler that validates a start edge.
ValidatedStartEdge ==
    HandlerRan /\ C1OUT' = 1 /\ StartValid(Duration(elapsedTicks'))

\* C18: the passes begun never outnumber the validated start edges handled
\* (each beginning of a pass uses up one handled start edge), and a handler
\* run that is not a validated start edge, noise or a validated end edge,
\* neither sets isSequenceRunning nor moves main.
C18_NoSpuriousPass ==
    /\ [](credit >= 0)
    /\ [][(pc = "main" /\ pc' = "for") => (isSequenceRunning /\ credit >= 1)]_vars
    /\ [][(HandlerRan /\ ~ValidatedStartEdge)
             => (isSequenceRunning' = isSequenceRunning /\ pc' = pc)]_vars

\* C18 witness: main idle at its loop head after a validated end edge that
\* followed a completed pass: one start handled, one pass begun, and the end
\* edge began none.
C18_Witness ==
    /\ pc = "main" /\ ~isSequenceRunning /\ credit = 0
    /\ Len(written) = lengthOfMessage + 1
    /\ edges = 1 /\ C1OUT = 0 /\ elapsedTicks > EndThreshold

\* The values a pass writes to PORTC: the frames from the last to the first
\* and then 0.
PassWrites ==
    [k \in 1..(lengthOfMessage + 1) |->
        IF k <= lengthOfMessage THEN letterSegments[lengthOfMessage - k] ELSE 0]

====
